---------------------------- MODULE Spec2Model ----------------------------
(***************************************************************************)
(* Model of the kniha-jazd maintenance scripts:                            *)
(*   scripts/compare_import.py  get_calculated_values, compare_year        *)
(*   scripts/import_excel.py    parse_date, main                           *)
(*                                                                         *)
(* Python floats are modelled as exact rationals (records with numerator   *)
(* n and denominator d > 0, always in lowest terms), so the arithmetic of  *)
(* the scripts is computed exactly; rounding of IEEE doubles is not        *)
(* modelled.  Python values carry their type: a float, a str or None.      *)
(***************************************************************************)
EXTENDS Integers, Sequences, FiniteSets, TLC

VARIABLES
    vehicle,            \* the row of SELECT ... FROM vehicles LIMIT 1
    trips,              \* the vehicle-year's trips rows, ORDER BY date, odometer
    excel_data,         \* get_excel_data(sheet_name)
    pc,                 \* position in the running function
    i,                  \* 1-based index of the loop in progress
    rates,              \* dict trip id -> rate
    current_trip_ids,   \* ids buffered in the period being scanned
    km_in_period,
    fuel_in_period,
    periods,            \* history: the id lists flushed by a period closure
    zostatok,           \* simulated tank level
    zostatok_map,       \* dict trip id -> fuel remaining after the trip
    spotreba_map,       \* dict trip id -> fuel consumed on the trip
    result,             \* compare_year's report
    first_call,         \* history: what the first compare_year call read and returned
    db_vehicles,        \* the vehicles table: ids in rowid order
    db_trips,           \* the trips table as committed
    tx_trips,           \* the trips table as the import's connection sees it
    db_before,          \* history: the trips table when the import started
    df,                 \* the sheet read by pd.read_excel(..., header=None)
    vehicle_id,
    import_year,
    imported

compareVars == <<vehicle, trips, excel_data, rates, current_trip_ids,
                 km_in_period, fuel_in_period, periods, zostatok,
                 zostatok_map, spotreba_map, result, first_call>>

importVars == <<db_vehicles, db_trips, tx_trips, db_before, df, vehicle_id,
                import_year, imported>>

vars == <<pc, i, compareVars, importVars>>

\* Longest trip sequence of a calculation run.
MaxTrips == 3

---------------------------------------------------------------------------
(* Python values *)

None == [t |-> "none"]

F(n, d) == [t |-> "float", n |-> n, d |-> d]

Str(s) == [t |-> "str", s |-> s]

IsFloat(v) == v.t = "float"

Abs(x) == IF x < 0 THEN -x ELSE x

RECURSIVE GCD(_, _)
GCD(a, b) == IF b = 0 THEN a ELSE GCD(b, a % b)

\* The float n/d (d > 0) in lowest terms.
Norm(n, d) == LET g == GCD(Abs(n), d) IN F(n \div g, d \div g)

Zero == Norm(0, 1)

FAdd(a, b) == Norm(a.n * b.d + b.n * a.d, a.d * b.d)

FSub(a, b) == Norm(a.n * b.d - b.n * a.d, a.d * b.d)

FMul(a, b) == Norm(a.n * b.n, a.d * b.d)

\* a / b for b # 0 (the scripts divide only behind a "> 0" guard).
FDiv(a, b) == IF b.n > 0 THEN Norm(a.n * b.d, a.d * b.n)
                         ELSE Norm(-(a.n * b.d), a.d * (-b.n))

FGt(a, b) == a.n * b.d > b.n * a.d

FAbs(a) == F(Abs(a.n), a.d)

\* Python's min(a, b) and max(a, b): the first argument wins a tie.
FMin(a, b) == IF FGt(a, b) THEN b ELSE a

FMax(a, b) == IF FGt(b, a) THEN b ELSE a

Hundred == Norm(100, 1)

\* Truth value of "x and ..." for a float-or-None x: None and 0.0 are falsy.
Truthy(x) == IsFloat(x) /\ x.n # 0

\* dict.get(key) and dict.get(key, default)
Get(dict, key) == IF key \in DOMAIN dict THEN dict[key] ELSE None

GetOr(dict, key, default) == IF key \in DOMAIN dict THEN dict[key] ELSE default

\* dict[key] = value for every key of the list ids
SetAll(dict, ids, value) ==
    LET ks == {ids[k] : k \in DOMAIN ids}
    IN [x \in DOMAIN dict \cup ks |-> IF x \in ks THEN value ELSE dict[x]]

Put(dict, key, value) == SetAll(dict, <<key>>, value)

EmptyDict == [x \in {} |-> None]

---------------------------------------------------------------------------
(* get_calculated_values: the rate loop *)

\* "if fuel_liters and fuel_liters > 0"
HasFuel(fuel_liters) == Truthy(fuel_liters) /\ FGt(fuel_liters, Zero)

\* "if full_tank and km_in_period > 0", reached only under HasFuel
ClosesPeriod(fuel_liters, full_tank, km) ==
    HasFuel(fuel_liters) /\ full_tank # 0 /\ FGt(km, Zero)

\* "rate = (fuel_in_period / km_in_period) * 100.0"
PeriodRate(fuel, km) == FMul(FDiv(fuel, km), Hundred)

\* Mutant of FuelAfter: "=" for "+=", only the latest refuel is counted.
FuelOverwritten(fuel, fuel_liters) ==
    IF HasFuel(fuel_liters) THEN fuel_liters ELSE fuel

\* fuel_in_period after the trip's "fuel_in_period += fuel_liters"
FuelAfter(fuel, fuel_liters) ==
    IF HasFuel(fuel_liters) THEN FAdd(fuel, fuel_liters) ELSE fuel

\* Mutant of BufferAfterClose: the buffer is not reset.
BufferKept(ids) == ids

\* current_trip_ids after a closure
BufferAfterClose(ids) == << >>

\* One iteration of "for trip_id, ... in trips" (lines 126-139).
RateStep ==
    /\ pc = "rates"
    /\ i <= Len(trips)
    /\ LET t    == trips[i]
           ids  == Append(current_trip_ids, t.id)
           km   == FAdd(km_in_period, t.distance_km)
           fuel == FuelAfter(fuel_in_period, t.fuel_liters)
       IN IF ClosesPeriod(t.fuel_liters, t.full_tank, km)
          THEN /\ rates' = SetAll(rates, ids, PeriodRate(fuel, km))
               /\ periods' = Append(periods, [ids |-> ids, km |-> km, fuel |-> fuel])
               /\ current_trip_ids' = BufferAfterClose(ids)
               /\ km_in_period' = Zero
               /\ fuel_in_period' = Zero
          ELSE /\ current_trip_ids' = ids
               /\ km_in_period' = km
               /\ fuel_in_period' = fuel
               /\ UNCHANGED <<rates, periods>>
    /\ i' = i + 1
    /\ UNCHANGED <<importVars, first_call>>
    /\ UNCHANGED <<vehicle, trips, excel_data, pc, zostatok, zostatok_map,
                   spotreba_map, result>>

\* Mutant of RemainingRates: the trailing buffer is left unrated.
RemainingSkipped(dict, ids, tp) == dict

\* rates after "for tid in current_trip_ids: rates[tid] = tp_consumption"
RemainingRates(dict, ids, tp) == SetAll(dict, ids, tp)

\* Lines 141-148: the trailing buffer gets the TP rate; the tank starts full.
AssignRemaining ==
    /\ pc = "rates"
    /\ i > Len(trips)
    /\ rates' = RemainingRates(rates, current_trip_ids, vehicle.tp_consumption)
    /\ zostatok' = vehicle.tank_size
    /\ pc' = "sim"
    /\ i' = 1
    /\ UNCHANGED <<importVars, first_call>>
    /\ UNCHANGED <<vehicle, trips, excel_data, current_trip_ids, km_in_period,
                   fuel_in_period, periods, zostatok_map, spotreba_map, result>>

---------------------------------------------------------------------------
(* get_calculated_values: the tank simulation *)

\* "spotreba = (distance_km * rate) / 100.0"
Spotreba(distance_km, rate) == FDiv(FMul(distance_km, rate), Hundred)

\* Mutant of Refuel: a full-tank refuel is added like any other.
RefuelAdditive(z, fuel_liters, full_tank, tank_size) ==
    IF HasFuel(fuel_liters) THEN FMin(FAdd(z, fuel_liters), tank_size) ELSE z

\* Lines 156-160: the refuel of a trip, applied to the level z.
Refuel(z, fuel_liters, full_tank, tank_size) ==
    IF HasFuel(fuel_liters)
    THEN IF full_tank # 0 THEN tank_size
                          ELSE FMin(FAdd(z, fuel_liters), tank_size)
    ELSE z

\* Mutant of Clamp: the floor at 0 is missing.
ClampNoFloor(z, tank_size) == FMin(z, tank_size)

\* "zostatok = max(0, min(zostatok, tank_size))"
Clamp(z, tank_size) == FMax(Zero, FMin(z, tank_size))

\* One iteration of the second "for ... in trips" (lines 150-163).
SimStep ==
    /\ pc = "sim"
    /\ i <= Len(trips)
    /\ LET t        == trips[i]
           rate     == GetOr(rates, t.id, vehicle.tp_consumption)
           spotreba == Spotreba(t.distance_km, rate)
           z        == Clamp(Refuel(FSub(zostatok, spotreba), t.fuel_liters,
                                    t.full_tank, vehicle.tank_size),
                             vehicle.tank_size)
       IN /\ spotreba_map' = Put(spotreba_map, t.id, spotreba)
          /\ zostatok' = z
          /\ zostatok_map' = Put(zostatok_map, t.id, z)
    /\ i' = i + 1
    /\ UNCHANGED <<importVars, first_call>>
    /\ UNCHANGED <<vehicle, trips, excel_data, pc, rates, current_trip_ids,
                   km_in_period, fuel_in_period, periods, result>>

\* "return {'rates': rates, 'zostatok': zostatok_map, 'spotreba': spotreba_map}"
ReturnCalc ==
    /\ pc = "sim"
    /\ i > Len(trips)
    /\ pc' = "calc_done"
    /\ UNCHANGED <<importVars, first_call>>
    /\ UNCHANGED <<vehicle, trips, excel_data, i, rates, current_trip_ids,
                   km_in_period, fuel_in_period, periods, zostatok,
                   zostatok_map, spotreba_map, result>>

---------------------------------------------------------------------------
(* Inputs of a calculation run *)

\* tp_consumption, tank_size of the vehicle row
TankSizes == {Norm(0, 1), Norm(30, 1)}

TpConsumption == Norm(51, 10)

Vehicles == [tp_consumption : {TpConsumption}, tank_size : TankSizes]

Distances == {Norm(0, 1), Norm(28, 1)}

FuelLiters == {None, Norm(0, 1), Norm(196, 10)}

\* Rows of the trips table (schema: date, origin, destination, distance_km,
\* odometer, purpose NOT NULL; fuel_liters, fuel_cost_eur nullable).  A
\* calculation run reads distance_km, fuel_liters and full_tank; date and
\* odometer only order the rows, so they are the same in every row here.
TripColumns ==
    [date : {Str("2024-01-03")}, origin : {Str("Bratislava")},
     destination : {Str("Trnava")}, distance_km : Distances,
     odometer : {Norm(45055, 1)}, purpose : {Str("stretnutie")},
     fuel_liters : FuelLiters, fuel_cost_eur : {None}, full_tank : {0, 1}]

\* The row with columns c under the primary key id.
TripRow(c, id) == [id |-> id] @@ c

\* No import is running: its variables are empty and stay so.
ImportIdle ==
    /\ db_vehicles = << >>
    /\ db_trips = {}
    /\ tx_trips = {}
    /\ db_before = {}
    /\ df = << >>
    /\ vehicle_id = None
    /\ import_year = None
    /\ imported = 0

\* trips is a fetched list of at most max rows with columns from cols,
\* keyed 1, 2, ... in fetch order.
IsTripList(cols, max) ==
    \E n \in 0..max : \E cs \in [1..n -> cols] :
        trips = [k \in 1..n |-> TripRow(cs[k], k)]

\* The state at line 120, the rows fetched.
Init ==
    /\ vehicle \in Vehicles
    /\ IsTripList(TripColumns, MaxTrips)
    /\ excel_data = << >>
    /\ pc = "rates"
    /\ i = 1
    /\ rates = EmptyDict
    /\ current_trip_ids = << >>
    /\ km_in_period = Zero
    /\ fuel_in_period = Zero
    /\ periods = << >>
    /\ zostatok = Zero
    /\ zostatok_map = EmptyDict
    /\ spotreba_map = EmptyDict
    /\ result = None
    /\ first_call = None
    /\ ImportIdle

Next == RateStep \/ AssignRemaining \/ SimStep \/ ReturnCalc

Spec == Init /\ [][Next]_vars

---------------------------------------------------------------------------
(* compare_year *)

\* Longest reference and stored sequence of a comparison run.
MaxRows == 2

\* get_db_data(year): the same rows without full_tank.
DbRow(t) == [f \in DOMAIN t \ {"full_tank"} |-> t[f]]

db_data == [k \in 1..Len(trips) |-> DbRow(trips[k])]

FixedFields == <<"date", "origin", "destination", "distance_km", "odometer",
                 "purpose", "fuel_liters", "fuel_cost_eur">>

\* Mutant of FixedTolerance: a tolerance of 0.001.
FixedToleranceTight == Norm(1, 1000)

\* "abs(ev - dv) > 0.01"
FixedTolerance == Norm(1, 100)

RateTolerance == Norm(5, 100)

SpotrebaTolerance == Norm(1, 10)

ZostatokTolerance == Norm(5, 10)

\* Lines 195-214: whether a fixed field's pair of values is appended.
FixedMismatch(ev, dv) ==
    IF ev = None /\ dv = None THEN FALSE
    ELSE IF IsFloat(ev) /\ IsFloat(dv)
         THEN FGt(FAbs(FSub(ev, dv)), FixedTolerance)
         ELSE ev # dv

\* The entries lines 191-214 append for one row, in field order.
FixedEntries(row_num, excel, db) ==
    LET cand == [k \in 1..Len(FixedFields) |->
                    [row |-> row_num, field |-> FixedFields[k],
                     excel |-> excel[FixedFields[k]], db |-> db[FixedFields[k]]]]
    IN SelectSeq(cand, LAMBDA e : FixedMismatch(e.excel, e.db))

\* Mutant of Exceeds: ">=" for ">".
ReachesTolerance(ev, cv, tol) == ~FGt(tol, FAbs(FSub(ev, cv)))

\* "abs(excel_x - calc_x) > tolerance"
Exceeds(ev, cv, tol) == FGt(FAbs(FSub(ev, cv)), tol)

\* Lines 222-230, 235-243, 248-256: the entry of one calculated field, if any.
CalcEntry(row_num, field, ev, cv, tol) ==
    IF ev # None /\ cv # None /\ Exceeds(ev, cv, tol)
    THEN <<[row |-> row_num, field |-> field, excel |-> ev, calculated |-> cv,
            diff |-> FAbs(FSub(ev, cv))]>>
    ELSE << >>

\* The entries lines 216-256 append for one row.
CalcEntries(row_num, excel, db) ==
    CalcEntry(row_num, "consumption_rate", excel.excel_rate,
              Get(rates, db.id), RateTolerance)
    \o CalcEntry(row_num, "spotreba", excel.excel_spotreba,
                 Get(spotreba_map, db.id), SpotrebaTolerance)
    \o CalcEntry(row_num, "zostatok", excel.excel_zostatok,
                 Get(zostatok_map, db.id), ZostatokTolerance)

\* Mutant of LengthsDiffer: only a longer reference sequence is noticed.
ExcelLonger(e, d) == Len(e) > Len(d)

\* "if len(excel_data) != len(db_data)"
LengthsDiffer(e, d) == Len(e) # Len(d)

Year == "2024"

\* Lines 174-184: the report is created; a count mismatch returns at once.
StartCompare ==
    /\ pc = "calc_done"
    /\ LET r == [year |-> Year, excel_count |-> Len(excel_data),
                 db_count |-> Len(db_data), fixed_mismatches |-> << >>,
                 calc_mismatches |-> << >>]
       IN IF LengthsDiffer(excel_data, db_data)
          THEN /\ result' = [count_mismatch |-> TRUE] @@ r
               /\ pc' = "done"
          ELSE /\ result' = r
               /\ pc' = "rows"
    /\ i' = 1
    /\ UNCHANGED <<importVars, first_call>>
    /\ UNCHANGED <<vehicle, trips, excel_data, rates, current_trip_ids,
                   km_in_period, fuel_in_period, periods, zostatok,
                   zostatok_map, spotreba_map>>

\* Number of pairs of zip(excel_data, db_data).
ZipLen == IF Len(excel_data) < Len(db_data) THEN Len(excel_data) ELSE Len(db_data)

\* One iteration of "for i, (excel, db) in enumerate(zip(...))" (lines 186-256).
CompareRow ==
    /\ pc = "rows"
    /\ i <= ZipLen
    /\ result' = [result EXCEPT
            !.fixed_mismatches = @ \o FixedEntries(i, excel_data[i], db_data[i]),
            !.calc_mismatches = @ \o CalcEntries(i, excel_data[i], db_data[i])]
    /\ i' = i + 1
    /\ UNCHANGED <<importVars, first_call>>
    /\ UNCHANGED <<vehicle, trips, excel_data, pc, rates, current_trip_ids,
                   km_in_period, fuel_in_period, periods, zostatok,
                   zostatok_map, spotreba_map>>

\* "return result" (line 258)
ReturnResult ==
    /\ pc = "rows"
    /\ i > ZipLen
    /\ pc' = "done"
    /\ UNCHANGED <<importVars, first_call>>
    /\ UNCHANGED <<vehicle, trips, excel_data, i, rates, current_trip_ids,
                   km_in_period, fuel_in_period, periods, zostatok,
                   zostatok_map, spotreba_map, result>>

\* "comparison.get('count_mismatch')" (line 287)
CountMismatch(r) == "count_mismatch" \in DOMAIN r /\ r.count_mismatch

(* Inputs of a comparison run *)

\* Stored rows: a trip without refuel and the same trip with a fill-up.
StoredColumns ==
    [date : {Str("2024-01-03")}, origin : {Str("Bratislava")},
     destination : {Str("Trnava")}, distance_km : {Norm(55, 1)},
     odometer : {Norm(45055, 1)}, purpose : {Str("stretnutie")},
     fuel_liters : {None, Norm(196, 10)}, fuel_cost_eur : {None},
     full_tank : {1}]

\* The reference row that agrees with the stored trip without refuel and
\* gives no reference value for the calculated fields.
ExcelBase ==
    [date |-> Str("2024-01-03"), origin |-> Str("Bratislava"),
     destination |-> Str("Trnava"), odometer |-> Norm(45055, 1),
     purpose |-> Str("stretnutie"), fuel_liters |-> None,
     fuel_cost_eur |-> None, excel_spotreba |-> None, excel_zostatok |-> None,
     distance_km |-> Norm(55, 1), excel_rate |-> None]

\* Reference rows: the base row and rows that differ from it in one field.
\* The first stored trip of an open period has rate 5.1, consumes 2.805 and
\* leaves 47.195; the reference values sit at and just beyond each tolerance.
ExcelRows ==
    {ExcelBase}
    \cup {[ExcelBase EXCEPT !.date = Str("2024-01-04")]}
    \cup {[ExcelBase EXCEPT !.distance_km = v] :
            v \in {Norm(55004, 1000), Norm(5501, 100), Norm(5502, 100)}}
    \cup {[ExcelBase EXCEPT !.fuel_liters = Norm(196, 10)]}
    \cup {[ExcelBase EXCEPT !.excel_rate = v] :
            v \in {Norm(515, 100), Norm(516, 100)}}
    \cup {[ExcelBase EXCEPT !.excel_spotreba = v] :
            v \in {Norm(2905, 1000), Norm(2906, 1000)}}
    \cup {[ExcelBase EXCEPT !.excel_zostatok = v] :
            v \in {Norm(47695, 1000), Norm(47696, 1000)}}

\* The state when compare_year has loaded excel_data and the stored rows and
\* get_calculated_values starts.
InitCompare ==
    /\ vehicle = [tp_consumption |-> TpConsumption, tank_size |-> Norm(50, 1)]
    /\ IsTripList(StoredColumns, MaxRows)
    /\ \E n \in 0..MaxRows : excel_data \in [1..n -> ExcelRows]
    /\ pc = "rates"
    /\ i = 1
    /\ rates = EmptyDict
    /\ current_trip_ids = << >>
    /\ km_in_period = Zero
    /\ fuel_in_period = Zero
    /\ periods = << >>
    /\ zostatok = Zero
    /\ zostatok_map = EmptyDict
    /\ spotreba_map = EmptyDict
    /\ result = None
    /\ first_call = None
    /\ ImportIdle

NextCompare == Next \/ StartCompare \/ CompareRow \/ ReturnResult

SpecCompare == InitCompare /\ [][NextCompare]_vars

(* compare_year called again for the same sheet and year *)

\* Mutant of NewKmInPeriod: the distance left in the buffer by the previous
\* call is carried into this one.
KmInPeriodCarried(left) == left

\* "km_in_period = 0.0" (line 123): a call's accumulator is its own local;
\* left is what the previous call's accumulator ended with.
NewKmInPeriod(left) == Zero

\* What a finished call read and returned.
CallRecord ==
    [vehicle |-> vehicle, trips |-> trips, excel_data |-> excel_data,
     rates |-> rates, zostatok |-> zostatok_map, spotreba |-> spotreba_map,
     result |-> result]

\* A further call of compare_year after one has returned.  The workbook and
\* the database are read again (lines 170-172, 105-118): neither script
\* function writes to them, so the rows are the ones read before.  Every
\* local of the call starts anew (lines 121-124, 146-147, 174-180).
CompareAgain ==
    /\ pc = "done"
    /\ first_call' = IF first_call = None THEN CallRecord ELSE first_call
    /\ pc' = "rates"
    /\ i' = 1
    /\ rates' = EmptyDict
    /\ current_trip_ids' = << >>
    /\ km_in_period' = NewKmInPeriod(km_in_period)
    /\ fuel_in_period' = Zero
    /\ periods' = << >>
    /\ zostatok' = Zero
    /\ zostatok_map' = EmptyDict
    /\ spotreba_map' = EmptyDict
    /\ result' = None
    /\ UNCHANGED <<vehicle, trips, excel_data, importVars>>

NextRepeat == NextCompare \/ CompareAgain

SpecRepeat == InitCompare /\ [][NextRepeat]_vars

---------------------------------------------------------------------------
(* import_excel.py: text and cell conversions *)

\* Text whose characters the script inspects (the date cell, the date and
\* the year made from it) is a str whose s is a sequence of one-character
\* strings; text it only copies is a str holding a plain string.

NaN == [t |-> "nan"]

Timestamp(y, m, d) == [t |-> "timestamp", y |-> y, m |-> m, d |-> d]

\* pd.isna(val)
IsNa(val) == val.t \in {"nan", "none"}

DigitChars == <<"0", "1", "2", "3", "4", "5", "6", "7", "8", "9">>

IsDigit(ch) == \E k \in 1..Len(DigitChars) : DigitChars[k] = ch

DigitValue(ch) == (CHOOSE k \in 1..Len(DigitChars) : DigitChars[k] = ch) - 1

\* The decimal digits of n >= 0, zero-padded to at least width characters
\* ("%Y", "%m", "%d" of strftime).
RECURSIVE Padded(_, _)
Padded(n, width) ==
    IF n < 10 /\ width <= 1 THEN <<DigitChars[n + 1]>>
    ELSE Append(Padded(n \div 10, width - 1), DigitChars[(n % 10) + 1])

\* text.split(sep) for a one-character sep
RECURSIVE Split(_, _)
Split(text, sep) ==
    IF \A k \in 1..Len(text) : text[k] # sep THEN <<text>>
    ELSE LET at == CHOOSE k \in 1..Len(text) :
                        text[k] = sep /\ \A j \in 1..(k - 1) : text[j] # sep
         IN <<SubSeq(text, 1, at - 1)>>
                \o Split(SubSeq(text, at + 1, Len(text)), sep)

\* part.zfill(2) for a part without sign
Zfill2(part) == IF Len(part) = 0 THEN <<"0", "0">>
                ELSE IF Len(part) = 1 THEN <<"0">> \o part
                ELSE part

\* ch.lower() for the letters of the sheets' marker rows
LowerChar(ch) ==
    CASE ch = "T" -> "t" [] ch = "O" -> "o" [] ch = "A" -> "a"
      [] ch = "L" -> "l" [] OTHER -> ch

Lower(text) == [k \in 1..Len(text) |-> LowerChar(text[k])]

\* date_val.strftime('%Y-%m-%d')
IsoFormat(ts) ==
    Padded(ts.y, 4) \o <<"-">> \o Padded(ts.m, 2) \o <<"-">> \o Padded(ts.d, 2)

\* str(date_val) of a date cell that is not blank
StrOf(date_val) ==
    IF date_val.t = "str" THEN date_val.s
    ELSE IsoFormat(date_val) \o << " ", "0", "0", ":", "0", "0", ":", "0", "0" >>

\* parse_date (lines 32-41)
ParseDate(date_val) ==
    IF date_val.t = "str"
    THEN LET parts == Split(date_val.s, ".")
         IN IF Len(parts) = 3
            THEN Str(parts[3] \o <<"-">> \o Zfill2(parts[2]) \o <<"-">>
                     \o Zfill2(parts[1]))
            ELSE Str(StrOf(date_val))
    ELSE Str(IsoFormat(date_val))

\* "pd.isna(date_val) or str(date_val).lower() == 'total'"
IsSkipped(date_val) ==
    IsNa(date_val) \/ Lower(StrOf(date_val)) = <<"t", "o", "t", "a", "l">>

\* date[:4]
YearPrefix(date) == Str(SubSeq(date.s, 1, IF Len(date.s) < 4 THEN Len(date.s) ELSE 4))

\* "not import_year": None and the empty string are falsy
NoYear(year) == year = None \/ year = Str(<< >>)

\* SQLite's strftime('%Y', date) for a stored date text: the year of a
\* YYYY-MM-DD date, NULL for text that is no date.
StrftimeYear(date) ==
    LET c == date.s
    IN IF /\ Len(c) = 10
          /\ c[5] = "-" /\ c[8] = "-"
          /\ \A k \in {1, 2, 3, 4, 6, 7, 9, 10} : IsDigit(c[k])
          /\ 10 * DigitValue(c[6]) + DigitValue(c[7]) \in 1..12
          /\ 10 * DigitValue(c[9]) + DigitValue(c[10]) \in 1..31
       THEN Str(SubSeq(c, 1, 4))
       ELSE None

\* parse_float (lines 44-51); the sheets here hold no numerals as text.
ParseFloat(val) == IF IsFloat(val) THEN val ELSE None

\* "parse_float(...) or 0.0"
OrZero(x) == IF x = None \/ x = Zero THEN Zero ELSE x

\* "str(row[k]) if not pd.isna(row[k]) else ''" for a text or blank cell
TextOrEmpty(val) == IF IsNa(val) THEN Str("") ELSE val

\* "str(row[12]) if not pd.isna(row[12]) else None"
TextOrNone(val) == IF IsNa(val) THEN None ELSE val

---------------------------------------------------------------------------
(* import_excel.py: main *)

\* Rows 0-2 of a sheet are the header block; data starts at row 3.
HeaderRows == 3

\* Most data rows of a sheet.
MaxSheetRows == 3

\* df.iloc[k].tolist() for the 0-based row number k
DfRow(k) == df[k + 1]

\* Mutant of AfterDelete: the year is left out of the WHERE clause.
DeleteAllOfVehicle(table, vid, year) == {t \in table : t.vehicle_id # vid}

\* The trips left by "DELETE FROM trips WHERE vehicle_id = ? AND
\* strftime('%Y', date) = ?"; a NULL year matches nothing.
AfterDelete(table, vid, year) ==
    {t \in table : ~(t.vehicle_id = vid /\ StrftimeYear(t.date) = year)}

\* "sort_order = len(df) - 3 - imported - 1"
SortOrder(n_rows, n_imported) == n_rows - HeaderRows - n_imported - 1

\* str(uuid.uuid4()): the k-th identity this run draws, unlike any stored one
NewId(k) == <<"uuid4", k>>

\* The row lines 127-157 insert for a sheet row.
NewTrip(row, vid, n_rows, n_imported) ==
    [id |-> NewId(n_imported + 1), vehicle_id |-> vid,
     date |-> ParseDate(row.date_val),
     origin |-> TextOrEmpty(row.origin),
     destination |-> TextOrEmpty(row.destination),
     distance_km |-> OrZero(ParseFloat(row.distance)),
     odometer |-> OrZero(ParseFloat(row.odometer)),
     purpose |-> TextOrEmpty(row.purpose),
     fuel_liters |-> ParseFloat(row.fuel),
     fuel_cost_eur |-> ParseFloat(row.fuel_cost),
     other_costs_eur |-> ParseFloat(row.other_costs),
     other_costs_note |-> TextOrNone(row.note),
     full_tank |-> 1, created_at |-> "now", updated_at |-> "now",
     sort_order |-> SortOrder(n_rows, n_imported)]

\* Mutant of OnException: what the connection wrote is committed anyway.
CommittedOnException(committed, working) == working

\* The committed table after an exception ends the run: commit (line 162)
\* was not reached, so the connection's open transaction is rolled back.
OnException(committed, working) == committed

\* Lines 74-80: the vehicle, or exit when the table has none.
GetVehicle ==
    /\ pc = "vehicle"
    /\ IF db_vehicles = << >>
       THEN /\ pc' = "exit"
            /\ UNCHANGED <<vehicle_id, i>>
       ELSE /\ vehicle_id' = Head(db_vehicles)
            /\ pc' = "year"
            /\ i' = HeaderRows
    /\ UNCHANGED <<db_vehicles, db_trips, tx_trips, db_before, df, import_year,
                   imported>>
    /\ UNCHANGED compareVars

\* One iteration of the first pass (lines 92-99), and its end.
ScanYear ==
    /\ pc = "year"
    /\ IF i < Len(df)
       THEN IF IsSkipped(DfRow(i).date_val)
            THEN /\ i' = i + 1
                 /\ UNCHANGED <<pc, import_year>>
            ELSE /\ import_year' = YearPrefix(ParseDate(DfRow(i).date_val))
                 /\ pc' = "check"
                 /\ UNCHANGED i
       ELSE /\ pc' = "check"
            /\ UNCHANGED <<i, import_year>>
    /\ UNCHANGED <<db_vehicles, db_trips, tx_trips, db_before, df, vehicle_id,
                   imported>>
    /\ UNCHANGED compareVars

\* Lines 101-103: exit when no row gave a year.
CheckYear ==
    /\ pc = "check"
    /\ pc' = IF NoYear(import_year) THEN "exit" ELSE "delete"
    /\ UNCHANGED <<i, importVars, compareVars>>

\* Lines 106-114: the delete, inside the transaction sqlite3 opens for it.
DeleteYear ==
    /\ pc = "delete"
    /\ tx_trips' = AfterDelete(tx_trips, vehicle_id, import_year)
    /\ imported' = 0
    /\ i' = HeaderRows
    /\ pc' = "insert"
    /\ UNCHANGED <<db_vehicles, db_trips, db_before, df, vehicle_id, import_year>>
    /\ UNCHANGED compareVars

\* One iteration of the second pass (lines 117-160).
InsertRow ==
    /\ pc = "insert"
    /\ i < Len(df)
    /\ IF IsSkipped(DfRow(i).date_val)
       THEN UNCHANGED <<tx_trips, imported>>
       ELSE /\ tx_trips' = tx_trips
                \cup {NewTrip(DfRow(i), vehicle_id, Len(df), imported)}
            /\ imported' = imported + 1
    /\ i' = i + 1
    /\ UNCHANGED <<pc, db_vehicles, db_trips, db_before, df, vehicle_id,
                   import_year>>
    /\ UNCHANGED compareVars

\* Lines 106-157: a statement raises (sqlite3.Error from execute, IndexError
\* from a sheet with fewer than 14 columns); the script ends without commit.
StatementRaises ==
    /\ \/ pc = "delete"
       \/ pc = "insert" /\ i < Len(df) /\ ~IsSkipped(DfRow(i).date_val)
    /\ db_trips' = OnException(db_trips, tx_trips)
    /\ tx_trips' = db_trips'
    /\ pc' = "raised"
    /\ UNCHANGED <<i, db_vehicles, db_before, df, vehicle_id, import_year,
                   imported>>
    /\ UNCHANGED compareVars

\* Lines 162-163: conn.commit()
Commit ==
    /\ pc = "insert"
    /\ i >= Len(df)
    /\ db_trips' = tx_trips
    /\ pc' = "done"
    /\ UNCHANGED <<i, db_vehicles, tx_trips, db_before, df, vehicle_id,
                   import_year, imported>>
    /\ UNCHANGED compareVars

(* Inputs of an import run *)

Chars2024 == <<"2", "0", "2", "4", "-", "0", "1", "-", "0", "3">>

Chars2023 == <<"2", "0", "2", "3", "-", "0", "6", "-", "0", "1">>

\* A stored trip as an earlier import wrote it.
StoredTrip(id, vid, date, sort_order) ==
    [id |-> <<"stored", id>>, vehicle_id |-> vid, date |-> Str(date),
     origin |-> Str("Bratislava"), destination |-> Str("Trnava"),
     distance_km |-> Norm(55, 1), odometer |-> Norm(45055, 1),
     purpose |-> Str("stretnutie"), fuel_liters |-> None,
     fuel_cost_eur |-> None, other_costs_eur |-> None,
     other_costs_note |-> None, full_tank |-> 1, created_at |-> "then",
     updated_at |-> "then", sort_order |-> sort_order]

\* Trips the table may hold before the run: two years of the first vehicle
\* and a trip of another vehicle.
StoredTrips ==
    { StoredTrip(1, "v1", Chars2024, 0), StoredTrip(2, "v1", Chars2023, 0),
      StoredTrip(3, "v2", Chars2024, 0) }

VehicleTables == { << >>, <<"v1", "v2">> }

BlankRow ==
    [date_val |-> NaN, origin |-> NaN, destination |-> NaN, odometer |-> NaN,
     purpose |-> NaN, fuel |-> NaN, fuel_cost |-> NaN, distance |-> NaN,
     note |-> NaN, other_costs |-> NaN]

\* A trip row with the given date cell.
DataRow(date_val) ==
    [date_val |-> date_val, origin |-> Str("Bratislava"),
     destination |-> Str("Senec"), odometer |-> Norm(45083, 1),
     purpose |-> Str("dodavka tovaru"), fuel |-> Norm(196, 10),
     fuel_cost |-> Norm(3136, 100), distance |-> Norm(28, 1),
     note |-> NaN, other_costs |-> NaN]

\* Rows after the header block: blank, the "Total" footer, a trip dated by
\* the text 15.1.2024, a trip dated by a native date in 2023.
SheetRows ==
    { BlankRow,
      [BlankRow EXCEPT !.date_val = Str(<<"T", "o", "t", "a", "l">>)],
      DataRow(Str(<<"1", "5", ".", "1", ".", "2", "0", "2", "4">>)),
      DataRow(Timestamp(2023, 12, 30)) }

\* The title row, the column names and the initial-state record.
HeaderBlock == [k \in 1..HeaderRows |-> BlankRow]

\* The state at line 70: the sheet is read, the connection is about to open.
InitImport ==
    /\ pc = "vehicle"
    /\ i = 0
    /\ db_vehicles \in VehicleTables
    /\ db_trips \in SUBSET StoredTrips
    /\ tx_trips = db_trips
    /\ db_before = db_trips
    /\ \E n \in 0..MaxSheetRows : \E rows \in [1..n -> SheetRows] :
            df = HeaderBlock \o rows
    /\ vehicle_id = None
    /\ import_year = None
    /\ imported = 0
    /\ vehicle = None
    /\ trips = << >>
    /\ excel_data = << >>
    /\ rates = EmptyDict
    /\ current_trip_ids = << >>
    /\ km_in_period = Zero
    /\ fuel_in_period = Zero
    /\ periods = << >>
    /\ zostatok = Zero
    /\ zostatok_map = EmptyDict
    /\ spotreba_map = EmptyDict
    /\ result = None
    /\ first_call = None

NextImport ==
    GetVehicle \/ ScanYear \/ CheckYear \/ DeleteYear \/ InsertRow
        \/ StatementRaises \/ Commit

SpecImport == InitImport /\ [][NextImport]_vars

---------------------------------------------------------------------------
(* Properties of get_calculated_values *)

FLe(a, b) == ~FGt(a, b)

\* The ids of trips[from..to], in order.
IdsOf(from, to) == [k \in 1..(to - from + 1) |-> trips[from + k - 1].id]

\* The position of the trip with the given id.
IndexOf(id) == CHOOSE k \in 1..Len(trips) : trips[k].id = id

RECURSIVE Flatten(_)
Flatten(ps) == IF ps = << >> THEN << >> ELSE Head(ps).ids \o Flatten(Tail(ps))

\* Sum of distance_km over the trips with the listed ids.
RECURSIVE SumDistance(_)
SumDistance(ids) ==
    IF ids = << >> THEN Zero
    ELSE FAdd(trips[IndexOf(Head(ids))].distance_km, SumDistance(Tail(ids)))

\* Sum of every positive fuel_liters over the trips with the listed ids.
RECURSIVE SumFuel(_)
SumFuel(ids) ==
    IF ids = << >> THEN Zero
    ELSE LET f == trips[IndexOf(Head(ids))].fuel_liters
         IN IF IsFloat(f) /\ f.n > 0 THEN FAdd(f, SumFuel(Tail(ids)))
                                     ELSE SumFuel(Tail(ids))

\* The rate loop has scanned every trip.
Scanned == pc \in {"sim", "calc_done"}

InTank(z) == FLe(Zero, z) /\ FLe(z, vehicle.tank_size)

\* C1: clamp invariant.  With tank_size >= 0, the level the simulator carries
\* from trip to trip and every fuel-remaining value it records lie in
\* [0, tank_size], whatever the distances, rates, refuels and full-tank flags.
C1_ClampInvariant ==
    Scanned =>
        /\ InTank(zostatok)
        /\ \A id \in DOMAIN zostatok_map : InTank(zostatok_map[id])

\* C1 witness: a finished run on a 30 l tank in which a partial refuel larger
\* than the headroom was capped at the tank size and a later trip consumed
\* more than the level, which was floored at 0.
C1_Witness ==
    /\ pc = "calc_done"
    /\ vehicle.tank_size = Norm(30, 1)
    /\ \E a, b \in 1..Len(trips) :
        /\ a < b
        /\ HasFuel(trips[a].fuel_liters) /\ trips[a].full_tank = 0
        /\ zostatok_map[trips[a].id] = vehicle.tank_size
        /\ FGt(spotreba_map[trips[b].id], vehicle.tank_size)
        /\ zostatok_map[trips[b].id] = Zero

\* C2: the segmentation is an exact partition.  At every point of the scan the
\* closed periods followed by the buffer are, concatenated in order, the ids
\* scanned so far in input order; every scanned trip is in exactly one of
\* them, and after the scan they reproduce the whole input.
C2_ExactPartition ==
    LET groups  == [k \in 1..Len(periods) |-> periods[k].ids] \o <<current_trip_ids>>
        scanned == IF Scanned THEN Len(trips) ELSE i - 1
    IN /\ Flatten(periods) \o current_trip_ids = IdsOf(1, scanned)
       /\ \A k \in 1..scanned :
            Cardinality({g \in 1..Len(groups) :
                \E j \in 1..Len(groups[g]) : groups[g][j] = trips[k].id}) = 1

\* C2 witness: a finished scan with a closed period of several trips followed
\* by a non-empty trailing period.
C2_Witness ==
    /\ pc = "calc_done"
    /\ Len(periods) >= 1
    /\ Len(periods[1].ids) >= 2
    /\ current_trip_ids # << >>

IsFillUp(k) == trips[k].full_tank # 0 /\ HasFuel(trips[k].fuel_liters)

\* First trip of the run of trips that ends at fill-up k: the trip after the
\* previous fill-up.
RunStart(k) ==
    LET prev == {j \in 1..(k - 1) : IsFillUp(j)}
    IN IF prev = {} THEN 1 ELSE (CHOOSE j \in prev : \A x \in prev : x <= j) + 1

\* C4: zero-distance periods.  A fill-up closes the run of trips since the
\* previous fill-up even when that run covers no distance: the trips of such
\* a run get no rate from the calculator (the simulator uses tp_consumption
\* for them), and the period that follows starts from an empty buffer, so
\* its rate is its own fuel over its own distance.
C4_ZeroDistancePeriodCloses ==
    pc = "calc_done" =>
        \A k \in 1..Len(trips) :
            (IsFillUp(k) /\ SumDistance(IdsOf(RunStart(k), k)) = Zero) =>
                /\ \A j \in RunStart(k)..k :
                    GetOr(rates, trips[j].id, vehicle.tp_consumption)
                        = vehicle.tp_consumption
                /\ \A m \in (k + 1)..Len(trips) :
                    (IsFillUp(m) /\ RunStart(m) = k + 1
                        /\ FGt(SumDistance(IdsOf(k + 1, m)), Zero)) =>
                    \A j \in (k + 1)..m :
                        rates[trips[j].id] =
                            FMul(FDiv(SumFuel(IdsOf(k + 1, m)),
                                      SumDistance(IdsOf(k + 1, m))), Hundred)

\* Position of the last fill-up, 0 when there is none.
LastFillUp ==
    LET all == {k \in 1..Len(trips) : IsFillUp(k)}
    IN IF all = {} THEN 0 ELSE CHOOSE k \in all : \A x \in all : x <= k

\* C5: the rate mapping is total.  After the scan every trip id has a rate,
\* every trip after the last fill-up (all trips when there is none) has
\* exactly tp_consumption, and every period the scan closed ends at a trip
\* with a positive fuel_liters and the full-tank flag.
C5_TotalMapping ==
    /\ Scanned =>
        /\ DOMAIN rates = {trips[k].id : k \in 1..Len(trips)}
        /\ \A k \in (LastFillUp + 1)..Len(trips) :
            rates[trips[k].id] = vehicle.tp_consumption
    /\ \A p \in 1..Len(periods) :
        LET last == periods[p].ids[Len(periods[p].ids)]
        IN IsFillUp(IndexOf(last))

\* C5 witness: a finished run with a closed period followed by trailing trips,
\* one of them flagged full tank without fuel, all rated tp_consumption.
C5_Witness ==
    /\ pc = "calc_done"
    /\ Len(periods) = 1
    /\ Len(trips) = 3
    /\ Len(current_trip_ids) = 2
    /\ trips[3].full_tank = 1 /\ trips[3].fuel_liters = None
    /\ rates[trips[2].id] = TpConsumption
    /\ rates[trips[3].id] = TpConsumption
    /\ rates[trips[1].id] # TpConsumption

---------------------------------------------------------------------------
(* Properties of compare_year *)

\* The report exists: compare_year is past line 180.
Reported == pc \in {"rows", "done"}

\* C8: count mismatch short-circuits.  The finished report's count_mismatch
\* is true exactly when the reference and the stored sequence differ in
\* length; then no row is ever compared, both mismatch lists are empty and
\* excel_count and db_count carry the two lengths.
C8_CountMismatchShortCircuits ==
    /\ pc = "done" => (CountMismatch(result) <=> Len(excel_data) # Len(trips))
    /\ (Reported /\ Len(excel_data) # Len(trips)) =>
        /\ pc = "done"
        /\ result.fixed_mismatches = << >>
        /\ result.calc_mismatches = << >>
        /\ result.excel_count = Len(excel_data)
        /\ result.db_count = Len(trips)

\* C8 witness: a report for a reference sequence of 2 and a stored sequence
\* of 1 whose first rows differ in a fixed field, with count_mismatch set.
C8_Witness ==
    /\ pc = "done"
    /\ Len(excel_data) = 2 /\ Len(trips) = 1
    /\ FixedEntries(1, excel_data[1], db_data[1]) # << >>
    /\ CountMismatch(result)
    /\ result.excel_count = 2 /\ result.db_count = 1

\* Equality of a reference and a stored value of a fixed field: both absent;
\* or both numbers no more than 0.01 apart; or, for any other pair, the same.
FixedEqual(r, c) ==
    \/ r = None /\ c = None
    \/ IsFloat(r) /\ IsFloat(c) /\ FLe(FAbs(FSub(r, c)), Norm(1, 100))
    \/ ~(IsFloat(r) /\ IsFloat(c)) /\ r = c

FixedEntry(row, f) ==
    [row |-> row, field |-> f, excel |-> excel_data[row][f], db |-> db_data[row][f]]

FixedFieldSet == {FixedFields[k] : k \in 1..Len(FixedFields)}

\* C9: fixed-field comparison, fully enumerated.  For sequences of equal
\* length the finished report lists {row, field, excel, db} for row i and
\* fixed field f if and only if the two values are unequal; it lists nothing
\* else, nothing twice, and rows in ascending order.
C9_FixedComparison ==
    (pc = "done" /\ ~CountMismatch(result)) =>
        LET fm == result.fixed_mismatches
        IN /\ \A row \in 1..Len(excel_data) : \A f \in FixedFieldSet :
                (\E j \in 1..Len(fm) : fm[j] = FixedEntry(row, f))
                    <=> ~FixedEqual(excel_data[row][f], db_data[row][f])
           /\ \A j \in 1..Len(fm) :
                \E row \in 1..Len(excel_data) : \E f \in FixedFieldSet :
                    fm[j] = FixedEntry(row, f)
           /\ \A j, l \in 1..Len(fm) :
                j < l => fm[j] # fm[l] /\ fm[j].row <= fm[l].row

\* C9 witness: a report on two rows: distance 55.02 against 55 in row 1 is
\* listed, distance 55.004 against 55 in row 2 is not, and row 2 is still
\* listed for its fuel_liters, absent in the reference and 19.6 in the store.
C9_Witness ==
    /\ pc = "done"
    /\ Len(excel_data) = 2 /\ Len(trips) = 2
    /\ excel_data[1].distance_km = Norm(5502, 100)
    /\ excel_data[2].distance_km = Norm(55004, 1000)
    /\ result.fixed_mismatches =
        << [row |-> 1, field |-> "distance_km", excel |-> Norm(5502, 100),
            db |-> Norm(55, 1)],
           [row |-> 2, field |-> "fuel_liters", excel |-> None,
            db |-> Norm(196, 10)] >>

\* The calculated fields: report name, reference column, tolerance.
DerivedFields ==
    { [field |-> "consumption_rate", column |-> "excel_rate", tol |-> Norm(5, 100)],
      [field |-> "spotreba", column |-> "excel_spotreba", tol |-> Norm(1, 10)],
      [field |-> "zostatok", column |-> "excel_zostatok", tol |-> Norm(5, 10)] }

\* The calculated value of a field for the stored row at a position.
Calculated(field, row) ==
    LET id == trips[row].id
    IN CASE field = "consumption_rate" -> Get(rates, id)
         [] field = "spotreba" -> Get(spotreba_map, id)
         [] field = "zostatok" -> Get(zostatok_map, id)

\* C10: derived-field comparison.  For sequences of equal length the finished
\* report lists a calculated field of row i, with the absolute difference, if
\* and only if the reference and the calculated value are both present and
\* differ by more than the field's tolerance (0.05 for the rate, 0.1 for
\* fuel consumed, 0.5 for fuel remaining); it lists nothing else.
C10_DerivedComparison ==
    (pc = "done" /\ ~CountMismatch(result)) =>
        LET cm == result.calc_mismatches
            Entry(row, d) ==
                [row |-> row, field |-> d.field,
                 excel |-> excel_data[row][d.column],
                 calculated |-> Calculated(d.field, row),
                 diff |-> FAbs(FSub(excel_data[row][d.column],
                                    Calculated(d.field, row)))]
            Both(row, d) ==
                /\ excel_data[row][d.column] # None
                /\ Calculated(d.field, row) # None
        IN /\ \A row \in 1..Len(excel_data) : \A d \in DerivedFields :
                (\E j \in 1..Len(cm) : cm[j].row = row /\ cm[j].field = d.field)
                    <=> ( /\ Both(row, d)
                          /\ FGt(FAbs(FSub(excel_data[row][d.column],
                                           Calculated(d.field, row))), d.tol) )
           /\ \A j \in 1..Len(cm) :
                \E row \in 1..Len(excel_data) : \E d \in DerivedFields :
                    Both(row, d) /\ cm[j] = Entry(row, d)

\* C10 witness: a report on two rows of an open period: the reference rate
\* 5.15 of row 1 is exactly 0.05 from the calculated 5.1 and not listed, its
\* other reference values are absent, and the reference consumption 2.906 of
\* row 2 is listed with the difference 0.101.
C10_Witness ==
    /\ pc = "done"
    /\ Len(excel_data) = 2 /\ Len(trips) = 2
    /\ excel_data[1].excel_rate = Norm(515, 100)
    /\ rates[trips[1].id] = Norm(51, 10)
    /\ excel_data[1].excel_zostatok = None
    /\ result.calc_mismatches =
        << [row |-> 2, field |-> "spotreba", excel |-> Norm(2906, 1000),
            calculated |-> Norm(2805, 1000), diff |-> Norm(101, 1000)] >>

---------------------------------------------------------------------------
(* Properties of import_excel.py *)

Year2024 == Str(<<"2", "0", "2", "4">>)

\* C6: the import is year-scoped.  Every trip the table held when the import
\* started whose date is outside the import's year (every trip, while no
\* year is established) is still in the table, unchanged, at every point of
\* the run, both as committed and as the import's connection sees it.
C6_YearScoped ==
    \A t \in db_before :
        (import_year = None \/ YearPrefix(t.date) # import_year) =>
            t \in db_trips /\ t \in tx_trips

\* C6 witness: a committed import of year 2024 from a sheet that also holds
\* a 2023 row: the stored 2024 trip of the vehicle is gone, its stored 2023
\* trip is kept, and the sheet's 15.1.2024 row is stored as 2024-01-15.
C6_Witness ==
    /\ pc = "done"
    /\ import_year = Year2024
    /\ imported = 2
    /\ StoredTrip(1, "v1", Chars2024, 0) \in db_before \ db_trips
    /\ StoredTrip(2, "v1", Chars2023, 0) \in db_trips
    /\ \E t \in db_trips \ db_before :
        t.date = Str(<<"2", "0", "2", "4", "-", "0", "1", "-", "1", "5">>)

\* 0-based numbers of the sheet rows that are trips, in order.
CandidateRows == {k \in HeaderRows..(Len(df) - 1) : ~IsSkipped(DfRow(k).date_val)}

\* C7: the import is all-or-nothing.  Until the commit, and after an exit or
\* a raised statement, the committed table is the one from before the run;
\* on an exit the delete never ran; after the commit the table is the
\* replaced one: the vehicle's old trips of the import's year are gone, every
\* other old trip is kept, and there is exactly one new trip per trip row of
\* the sheet, with that row's date and distance.
C7_AllOrNothing ==
    /\ pc # "done" => db_trips = db_before
    /\ pc = "exit" => tx_trips = db_before
    /\ pc = "done" =>
        LET new == db_trips \ db_before
        IN /\ db_trips \cap db_before =
                {t \in db_before : ~(t.vehicle_id = Head(db_vehicles)
                                     /\ YearPrefix(t.date) = import_year)}
           /\ Cardinality(new) = Cardinality(CandidateRows)
           /\ \A k \in CandidateRows :
                LET rank == Cardinality({j \in CandidateRows : j <= k})
                IN \E t \in new :
                    /\ t.id = NewId(rank)
                    /\ t.date = ParseDate(DfRow(k).date_val)
                    /\ t.distance_km = DfRow(k).distance
                    /\ t.vehicle_id = Head(db_vehicles)

\* C7 witness: a run of year 2024 that deleted the stored 2024 trip, inserted
\* a row and then met a raising statement: the committed table is the one
\* from before the run.
C7_Witness ==
    /\ pc = "raised"
    /\ import_year = Year2024
    /\ imported >= 1
    /\ StoredTrip(1, "v1", Chars2024, 0) \in db_trips

\* The trip the run inserted k-th, as the import's connection sees it.
Inserted(k) == CHOOSE t \in tx_trips : t.id = NewId(k)

\* The trip rows among the sheet rows the second pass has walked.
WalkedCandidates == {k \in CandidateRows : k < i}

\* C11: sortOrder assignment.  During and after the second pass: the count
\* of imported trips is the count of trip rows walked (blank and "total"
\* rows do not count), each inserted trip's sort_order is one less than the
\* previously inserted trip's, and once the walk has ended the n inserted
\* trips hold the keys n-1 down to 0, the last inserted holding 0.
C11_SortOrderAssignment ==
    pc \in {"insert", "done"} =>
        /\ imported = Cardinality(WalkedCandidates)
        /\ \A k \in 1..imported : \E t \in tx_trips : t.id = NewId(k)
        /\ \A k \in 2..imported :
                Inserted(k).sort_order = Inserted(k - 1).sort_order - 1
        /\ i >= Len(df) =>
                \A k \in 1..imported : Inserted(k).sort_order = imported - k

---------------------------------------------------------------------------
(* Properties of repeated calls *)

\* A call after the first has its derived values, and then its report.
Derived == first_call # None /\ pc \in {"calc_done", "rows", "done"}

---------------------------------------------------------------------------
(* Properties of the tank simulation's refuel step *)

\* Number of trips the simulation loop has processed.
Simulated == IF pc = "rates" THEN 0
             ELSE IF pc = "sim" THEN i - 1 ELSE Len(trips)

\* The level before the k-th trip: the capacity, or what the trip before left.
LevelBefore(k) == IF k = 1 THEN vehicle.tank_size
                  ELSE zostatok_map[trips[k - 1].id]

\* x saturated to [0, cap]
Saturated(x, cap) == IF FGt(Zero, x) THEN Zero
                     ELSE IF FGt(x, cap) THEN cap ELSE x

\* C13: the refuel step.  The level starts at the capacity.  For every
\* simulated trip the consumption distance * rate / 100 is subtracted first.
\* Then a trip with fuel present and positive and the full-tank flag is
\* recorded with exactly the capacity, whatever the level was; a trip with
\* fuel present and positive without the flag is recorded with
\* min(level + fuel, capacity), saturated to [0, capacity]; a trip with no
\* fuel or non-positive fuel is recorded with the saturated level after the
\* subtraction, which is not above the level before the trip.
C13_RefuelStep ==
    /\ (pc = "sim" /\ i = 1) => zostatok = vehicle.tank_size
    /\ (pc = "sim" /\ i > 1) => zostatok = zostatok_map[trips[i - 1].id]
    /\ \A k \in 1..Simulated :
        LET t        == trips[k]
            cap      == vehicle.tank_size
            consumed == FDiv(FMul(t.distance_km, rates[t.id]), Hundred)
            level    == FSub(LevelBefore(k), consumed)
            recorded == zostatok_map[t.id]
        IN /\ spotreba_map[t.id] = consumed
           /\ IF t.fuel_liters # None /\ FGt(t.fuel_liters, Zero)
              THEN IF t.full_tank # 0
                   THEN recorded = cap
                   ELSE LET sum == FAdd(level, t.fuel_liters)
                        IN recorded =
                            Saturated(IF FGt(sum, cap) THEN cap ELSE sum, cap)
              ELSE /\ recorded = Saturated(level, cap)
                   /\ FLe(recorded, LevelBefore(k))

\* C13 witness: tank 30.  A partial refuel of 19.6 on a full tank is cut to
\* 30; a trip without fuel at rate 70 leaves 10.4; the fill-up trip consumes
\* 19.6 and adds 19.6, which would give 10.4, and is recorded with 30.
C13_Witness ==
    /\ pc = "calc_done"
    /\ Len(trips) = 3
    /\ vehicle.tank_size = Norm(30, 1)
    /\ trips[1].fuel_liters = Norm(196, 10) /\ trips[1].full_tank = 0
    /\ zostatok_map[1] = Norm(30, 1)
    /\ trips[2].fuel_liters = None
    /\ zostatok_map[2] = Norm(104, 10)
    /\ trips[3].fuel_liters = Norm(196, 10) /\ trips[3].full_tank = 1
    /\ spotreba_map[3] = Norm(196, 10)
    /\ zostatok_map[3] = Norm(30, 1)

===========================================================================
